---- MODULE Spec2Model ----
(***************************************************************************)
(* A model of the registrar client libraries:                              *)
(*   - the typed accessor over serde_json::Value (json.rs),                *)
(*   - the OpenProvider client and its request pipeline (lib.rs),          *)
(*   - the I/O result classifier (io_result_ext.rs),                       *)
(*   - ApiRequest::send of the common crate (registrar-common lib.rs),     *)
(*   - the unified Error, its conversions and Display (error.rs),          *)
(*   - the porkbun client (porkbun lib.rs).                                *)
(*                                                                         *)
(* TLC integers are 32 bits wide, so the machine widths u32/i64/u64 are    *)
(* scaled down to U32Bits/U64Bits bits; the order u32::MAX < i64::MAX <    *)
(* u64::MAX of the real widths is kept.                                    *)
(***************************************************************************)
EXTENDS Integers, Sequences, FiniteSets, TLC

VARIABLES
    jv,          \* json: the serde_json::Value the accessors are applied to
    jcall,       \* json: the last accessor call, [op, index]
    jres,        \* json: what that call returned
    token,       \* Client.token : Option<String>
    max_retries, \* Client.max_retries : u32
    pc,          \* where Client::request stands: "idle", "built", "sent", "done"
    attempts,    \* number of times the current request was sent
    request,     \* the request built by the current call of Client::request
    response,    \* the decoded body of the response, when one arrived
    result,      \* what Client::request returned
    call,        \* the arguments of the current call of Client::request
    configured,  \* history: the token last given to the builder or to set_token
    login_out,   \* what Client::login returned
    http_status, \* the HTTP status of the response to Client::request, 0 without one
    io_self,     \* io: the Result<T, io::Error> that ok_kind is called on
    io_pred,     \* io: the name of the predicate handed to ok_kind
    io_out,      \* io: what ok_kind returned, and whether it called the predicate
    s_req,       \* send: the ApiRequest (url, method, bearer)
    s_pc,        \* send: where ApiRequest::send stands
    s_conn,      \* send: the connection of this call: "none", "open", "closed"
    s_wire,      \* send: the request handed to sender.send_request, if any
    s_status,    \* send: the status of the response, 0 before one arrived
    s_body,      \* send: whether the body of the response was collected
    s_result,    \* send: what ApiRequest::send returned
    s_server,    \* send: whether the server "keeps_open" or "closes" an idle connection
    e_src,       \* error: the foreign error an Error was converted from, if any
    e_err,       \* error: a value of registrar_common::Error
    e_shown,     \* error: what Display gave for e_err
    pb_keys,     \* porkbun: Client.keys : Option<(String, String)>
    pb_pc,       \* porkbun: where Client::request stands
    pb_given,    \* porkbun: the body handed to Client::request
    pb_sent,     \* porkbun: the body that was sent
    pb_result,   \* porkbun: what the call returned
    lr_name,     \* records: the zone name given to Client::list_records
    lr_zone,     \* records: what get_zone_internal returned
    lr_checks,   \* records: whether the build checks integer overflow
    lr_out       \* records: what list_records returned

vars == <<jv, jcall, jres, token, max_retries, pc, attempts, request, response,
          result, call, configured, login_out, http_status,
          io_self, io_pred, io_out, s_req, s_pc, s_conn, s_wire,
          s_status, s_body, s_result, s_server, e_src, e_err, e_shown, pb_keys, pb_pc,
          pb_given, pb_sent, pb_result, lr_name, lr_zone, lr_checks, lr_out>>

jsonVars == <<jv, jcall, jres>>
clientVars == <<token, max_retries, pc, attempts, request, response, result,
                call, configured, login_out, http_status>>
ioVars == <<io_self, io_pred, io_out>>
sendVars == <<s_req, s_pc, s_conn, s_wire, s_status, s_body, s_result, s_server>>
errVars == <<e_src, e_err, e_shown>>
pbVars == <<pb_keys, pb_pc, pb_given, pb_sent, pb_result>>
recVars == <<lr_name, lr_zone, lr_checks, lr_out>>
pipelineVars == <<sendVars, errVars, pbVars, recVars>>

(***************************************************************************)
(* Bounds of the model.                                                    *)
(***************************************************************************)
U32Bits == 8
U64Bits == 16
MaxLen == 2
MaxRetries == 2

RECURSIVE Pow2(_)
Pow2(n) == IF n = 0 THEN 1 ELSE 2 * Pow2(n - 1)

U32_MAX == Pow2(U32Bits) - 1
U64_MAX == Pow2(U64Bits) - 1
I64_MAX == Pow2(U64Bits - 1) - 1
I64_MIN == 0 - Pow2(U64Bits - 1)

(***************************************************************************)
(* Option<T> and Result<T, E>.                                             *)
(***************************************************************************)
None == [some |-> FALSE]
Some(x) == [some |-> TRUE, val |-> x]

Ok(x) == [ok |-> TRUE, val |-> x]
Err(e) == [ok |-> FALSE, err |-> e]

NoCall == [op |-> "none"]
NoResult == [ok |-> FALSE, err |-> [kind |-> "NotCalled"]]

(***************************************************************************)
(* serde_json::Value and serde_json::Number.  A Number is stored the way   *)
(* serde_json stores it: a non-negative integer as PosInt(u64), a negative *)
(* integer as NegInt(i64), anything else as Float(f64).                    *)
(***************************************************************************)
PosInt(n) == [n |-> "PosInt", int |-> n]
NegInt(n) == [n |-> "NegInt", int |-> n]
Float(text) == [n |-> "Float", text |-> text]

Null == [type |-> "Null"]
Bool(b) == [type |-> "Bool", b |-> b]
Number(num) == [type |-> "Number", num |-> num]
String(s) == [type |-> "String", s |-> s]
Array(vec) == [type |-> "Array", vec |-> vec]
Object(map) == [type |-> "Object", map |-> map]

is_u64(num) == num.n = "PosInt"
is_i64(num) ==
    CASE num.n = "PosInt" -> num.int <= I64_MAX
      [] num.n = "NegInt" -> TRUE
      [] OTHER -> FALSE
is_f64(num) == num.n = "Float"

\* The numbers the model draws from: the ends of every range and their neighbours.
PosInts == {0, 1, 42, 196, U32_MAX - 1, U32_MAX, U32_MAX + 1,
            I64_MAX, I64_MAX + 1, U64_MAX}
NegInts == {-1, I64_MIN}
Floats == {"1.5", "-0.5"}
Numbers == {PosInt(n) : n \in PosInts} \cup {NegInt(n) : n \in NegInts}
             \cup {Float(t) : t \in Floats}

Strings == {"", "oops"}
Keys == {"code", "data", "desc"}

Scalars == {Null, Bool(TRUE), Bool(FALSE)} \cup {Number(n) : n \in Numbers}
             \cup {String(s) : s \in Strings}
Elems == {Null, Bool(TRUE), Number(PosInt(1)), String("oops")}
Members == {Null, Number(PosInt(0)), String("oops")}

SeqsUpTo(S, n) == UNION {[1..k -> S] : k \in 0..n}

Arrays == {Array(vec) : vec \in SeqsUpTo(Elems, MaxLen)}
Objects == {Object(map) : map \in UNION {[ks -> Members] : ks \in SUBSET Keys}}
Values == Scalars \cup Arrays \cup Objects

(***************************************************************************)
(* IndexExt: an index is a usize position or a str key.                    *)
(***************************************************************************)
Pos(i) == [ix |-> "usize", pos |-> i]
Key(k) == [ix |-> "str", key |-> k]

Indexes == {Pos(i) : i \in 0..(MaxLen + 1)} \cup {Key(k) : k \in Keys \cup {"id"}}

\* Faulty variants of index_into_usize: the last position is refused; a value that is
\* no array is treated as an empty one.
index_into_usize_short(i, v) ==
    IF v.type = "Array"
    THEN IF i + 1 < Len(v.vec)
         THEN Ok(v.vec[i + 1])
         ELSE Err([kind |-> "IndexOutOfBounds", index |-> i])
    ELSE Err([kind |-> "WrongType", value |-> v, expected |-> "Array"])

index_into_usize_lenient(i, v) ==
    IF v.type = "Array" /\ i < Len(v.vec)
    THEN Ok(v.vec[i + 1])
    ELSE Err([kind |-> "IndexOutOfBounds", index |-> i])

\* impl IndexExt for usize; vec.get(i) counts from 0.
index_into_usize(i, v) ==
    IF v.type = "Array"
    THEN IF i < Len(v.vec)
         THEN Ok(v.vec[i + 1])
         ELSE Err([kind |-> "IndexOutOfBounds", index |-> i])
    ELSE Err([kind |-> "WrongType", value |-> v, expected |-> "Array"])

\* Faulty variant of index_into_str: a missing key reads as null, as Value's own
\* Index does.
index_into_str_null(k, v) ==
    IF v.type = "Object"
    THEN IF k \in DOMAIN v.map THEN Ok(v.map[k]) ELSE Ok([type |-> "Null"])
    ELSE Err([kind |-> "WrongType", value |-> v, expected |-> "Object"])

\* impl IndexExt for str
index_into_str(k, v) ==
    IF v.type = "Object"
    THEN IF k \in DOMAIN v.map
         THEN Ok(v.map[k])
         ELSE Err([kind |-> "KeyMissing", key |-> k])
    ELSE Err([kind |-> "WrongType", value |-> v, expected |-> "Object"])

get_ok(v, index) ==
    IF index.ix = "usize"
    THEN index_into_usize(index.pos, v)
    ELSE index_into_str(index.key, v)

(***************************************************************************)
(* ValueExt: the coercions.                                                *)
(***************************************************************************)
WrongType(v, expected) ==
    Err([kind |-> "WrongType", value |-> v, expected |-> expected])
WrongNumberType(num, expected) ==
    Err([kind |-> "WrongNumberType", num |-> num, expected |-> expected])

as_object_ok(v) == IF v.type = "Object" THEN Ok(v.map) ELSE WrongType(v, "Object")
as_array_ok(v) == IF v.type = "Array" THEN Ok(v.vec) ELSE WrongType(v, "Array")
as_str_ok(v) == IF v.type = "String" THEN Ok(v.s) ELSE WrongType(v, "String")
as_bool_ok(v) == IF v.type = "Bool" THEN Ok(v.b) ELSE WrongType(v, "Bool")
as_null_ok(v) == IF v.type = "Null" THEN Ok("unit") ELSE WrongType(v, "Null")

as_u64_ok(v) ==
    IF v.type = "Number"
    THEN IF is_u64(v.num)
         THEN Ok(v.num.int)
         ELSE WrongNumberType(v.num, "U64")
    ELSE WrongType(v, "Number")

\* Faulty variant of as_u32_ok: u32::MAX itself is accepted.
as_u32_ok_inclusive(v) ==
    IF v.type = "Number"
    THEN IF is_u64(v.num) /\ v.num.int <= U32_MAX
         THEN Ok(v.num.int % Pow2(U32Bits))
         ELSE IF is_u64(v.num)
              THEN WrongNumberType(v.num, "U32")
              ELSE WrongNumberType(v.num, "U64")
    ELSE WrongType(v, "Number")

as_u32_ok(v) ==
    IF v.type = "Number"
    THEN IF is_u64(v.num) /\ v.num.int < U32_MAX
         THEN Ok(v.num.int % Pow2(U32Bits))
         ELSE IF is_u64(v.num)
              THEN WrongNumberType(v.num, "U32")
              ELSE WrongNumberType(v.num, "U64")
    ELSE WrongType(v, "Number")

\* Faulty variant of as_i64_ok: a number out of range is reported as a wrong variant.
as_i64_ok_one_shape(v) ==
    IF v.type = "Number" /\ is_i64(v.num)
    THEN Ok(v.num.int)
    ELSE WrongType(v, "Number")

as_i64_ok(v) ==
    IF v.type = "Number"
    THEN IF is_i64(v.num)
         THEN Ok(v.num.int)
         ELSE WrongNumberType(v.num, "I64")
    ELSE WrongType(v, "Number")

\* Faulty variant of as_f64_ok: an integer is converted to floating point.
as_f64_ok_converting(v) ==
    IF v.type = "Number"
    THEN IF is_f64(v.num)
         THEN Ok(v.num.text)
         ELSE Ok(v.num.int)
    ELSE WrongType(v, "Number")

as_f64_ok(v) ==
    IF v.type = "Number"
    THEN IF is_f64(v.num)
         THEN Ok(v.num.text)
         ELSE WrongNumberType(v.num, "Float")
    ELSE WrongType(v, "Number")

(***************************************************************************)
(* The accessor of the root crate (src/json.rs), the older copy of         *)
(* IndexExt and ValueExt, with its own Error.                              *)
(***************************************************************************)
root_index_into_usize(i, v) ==
    IF v.type = "Array"
    THEN IF i < Len(v.vec)
         THEN Ok(v.vec[i + 1])
         ELSE Err([kind |-> "IndexOutOfBounds", index |-> i])
    ELSE Err([kind |-> "WrongType", value |-> v, expected |-> "Array"])

root_index_into_str(k, v) ==
    IF v.type = "Object"
    THEN IF k \in DOMAIN v.map
         THEN Ok(v.map[k])
         ELSE Err([kind |-> "KeyMissing", key |-> k])
    ELSE Err([kind |-> "WrongType", value |-> v, expected |-> "Object"])

root_get_ok(v, index) ==
    IF index.ix = "usize"
    THEN root_index_into_usize(index.pos, v)
    ELSE root_index_into_str(index.key, v)

root_as_object_ok(v) == IF v.type = "Object" THEN Ok(v.map) ELSE WrongType(v, "Object")
root_as_array_ok(v) == IF v.type = "Array" THEN Ok(v.vec) ELSE WrongType(v, "Array")
root_as_str_ok(v) == IF v.type = "String" THEN Ok(v.s) ELSE WrongType(v, "String")
root_as_bool_ok(v) == IF v.type = "Bool" THEN Ok(v.b) ELSE WrongType(v, "Bool")
root_as_null_ok(v) == IF v.type = "Null" THEN Ok("unit") ELSE WrongType(v, "Null")

root_as_u64_ok(v) ==
    IF v.type = "Number"
    THEN IF is_u64(v.num)
         THEN Ok(v.num.int)
         ELSE WrongNumberType(v.num, "U64")
    ELSE WrongType(v, "Number")

root_as_u32_ok(v) ==
    IF v.type = "Number"
    THEN IF is_u64(v.num) /\ v.num.int < U32_MAX
         THEN Ok(v.num.int % Pow2(U32Bits))
         ELSE IF is_u64(v.num)
              THEN WrongNumberType(v.num, "U32")
              ELSE WrongNumberType(v.num, "U64")
    ELSE WrongType(v, "Number")

root_as_i64_ok(v) ==
    IF v.type = "Number"
    THEN IF is_i64(v.num)
         THEN Ok(v.num.int)
         ELSE WrongNumberType(v.num, "I64")
    ELSE WrongType(v, "Number")

root_as_f64_ok(v) ==
    IF v.type = "Number"
    THEN IF is_f64(v.num)
         THEN Ok(v.num.text)
         ELSE WrongNumberType(v.num, "Float")
    ELSE WrongType(v, "Number")

(***************************************************************************)
(* The accessor specification: a value is decoded, accessors are applied   *)
(* to it.                                                                  *)
(***************************************************************************)
\* Faulty variant of GetOk: a key that is missing from an object is entered
\* with null, as indexing a mutable value does.
GetOkInserting ==
    \E index \in Indexes :
        /\ jcall' = [op |-> "get_ok", index |-> index]
        /\ jres' = get_ok(jv, index)
        /\ jv' = IF jv.type = "Object" /\ index.ix = "str"
                     /\ index.key \notin DOMAIN jv.map
                 THEN Object([k \in DOMAIN jv.map \cup {index.key} |->
                                 IF k = index.key THEN Null ELSE jv.map[k]])
                 ELSE jv
        /\ UNCHANGED <<clientVars, ioVars, pipelineVars>>

GetOk ==
    \E index \in Indexes :
        /\ jcall' = [op |-> "get_ok", index |-> index]
        /\ jres' = get_ok(jv, index)
        /\ UNCHANGED <<jv, clientVars, ioVars, pipelineVars>>

AsObjectOk ==
    /\ jcall' = [op |-> "as_object_ok"]
    /\ jres' = as_object_ok(jv)
    /\ UNCHANGED <<jv, clientVars, ioVars, pipelineVars>>

AsArrayOk ==
    /\ jcall' = [op |-> "as_array_ok"]
    /\ jres' = as_array_ok(jv)
    /\ UNCHANGED <<jv, clientVars, ioVars, pipelineVars>>

AsStrOk ==
    /\ jcall' = [op |-> "as_str_ok"]
    /\ jres' = as_str_ok(jv)
    /\ UNCHANGED <<jv, clientVars, ioVars, pipelineVars>>

AsBoolOk ==
    /\ jcall' = [op |-> "as_bool_ok"]
    /\ jres' = as_bool_ok(jv)
    /\ UNCHANGED <<jv, clientVars, ioVars, pipelineVars>>

AsNullOk ==
    /\ jcall' = [op |-> "as_null_ok"]
    /\ jres' = as_null_ok(jv)
    /\ UNCHANGED <<jv, clientVars, ioVars, pipelineVars>>

AsI64Ok ==
    /\ jcall' = [op |-> "as_i64_ok"]
    /\ jres' = as_i64_ok(jv)
    /\ UNCHANGED <<jv, clientVars, ioVars, pipelineVars>>

AsU64Ok ==
    /\ jcall' = [op |-> "as_u64_ok"]
    /\ jres' = as_u64_ok(jv)
    /\ UNCHANGED <<jv, clientVars, ioVars, pipelineVars>>

AsU32Ok ==
    /\ jcall' = [op |-> "as_u32_ok"]
    /\ jres' = as_u32_ok(jv)
    /\ UNCHANGED <<jv, clientVars, ioVars, pipelineVars>>

AsF64Ok ==
    /\ jcall' = [op |-> "as_f64_ok"]
    /\ jres' = as_f64_ok(jv)
    /\ UNCHANGED <<jv, clientVars, ioVars, pipelineVars>>

ClientIdle ==
    /\ token = None
    /\ max_retries = 0
    /\ pc = "idle"
    /\ attempts = 0
    /\ request = None
    /\ response = None
    /\ result = NoResult
    /\ call = None
    /\ configured = [by |-> "builder", token |-> None]
    /\ login_out = NoResult
    /\ http_status = 0

IoIdle ==
    /\ io_self = NoResult
    /\ io_pred = [name |-> "none"]
    /\ io_out = NoResult

JsonIdle ==
    /\ jv = Null
    /\ jcall = NoCall
    /\ jres = NoResult

SendIdle ==
    /\ s_req = None
    /\ s_pc = "new"
    /\ s_conn = "none"
    /\ s_wire = None
    /\ s_status = 0
    /\ s_body = FALSE
    /\ s_result = NoResult
    /\ s_server = "closes"

ErrorIdle ==
    /\ e_src = None
    /\ e_err = None
    /\ e_shown = None

PorkbunIdle ==
    /\ pb_keys = None
    /\ pb_pc = "idle"
    /\ pb_given = None
    /\ pb_sent = None
    /\ pb_result = NoResult

RecordsIdle ==
    /\ lr_name = <<>>
    /\ lr_zone = NoResult
    /\ lr_checks = FALSE
    /\ lr_out = NoResult

PipelineIdle == SendIdle /\ ErrorIdle /\ PorkbunIdle /\ RecordsIdle

InitJson ==
    /\ jv \in Values
    /\ jcall = NoCall
    /\ jres = NoResult
    /\ ClientIdle
    /\ IoIdle
    /\ PipelineIdle

NextJson ==
    \/ GetOk
    \/ AsObjectOk
    \/ AsArrayOk
    \/ AsStrOk
    \/ AsBoolOk
    \/ AsNullOk
    \/ AsI64Ok
    \/ AsU64Ok
    \/ AsU32Ok
    \/ AsF64Ok

SpecJson == InitJson /\ [][NextJson]_vars

(***************************************************************************)
(* Rendering: Display of json::Error and of serde_json::Value.             *)
(***************************************************************************)
Digit(d) ==
    CASE d = 0 -> "0" [] d = 1 -> "1" [] d = 2 -> "2" [] d = 3 -> "3"
      [] d = 4 -> "4" [] d = 5 -> "5" [] d = 6 -> "6" [] d = 7 -> "7"
      [] d = 8 -> "8" [] d = 9 -> "9"

RECURSIVE NatToString(_)
NatToString(n) ==
    IF n < 10 THEN Digit(n) ELSE NatToString(n \div 10) \o Digit(n % 10)

IntToString(n) == IF n < 0 THEN "-" \o NatToString(0 - n) ELSE NatToString(n)

\* ValueType::describe
describe(expected) ==
    CASE expected = "Null" -> "the null constant"
      [] expected = "Bool" -> "a boolean"
      [] expected = "Number" -> "a number"
      [] expected = "String" -> "a string"
      [] expected = "Array" -> "an array"
      [] expected = "Object" -> "an object"

\* impl Display for json::Error
json_error_to_string(e) ==
    CASE e.kind = "KeyMissing" -> "key '" \o e.key \o "' is missing"
      [] e.kind = "WrongType" -> "expected " \o describe(e.expected)
      [] e.kind = "WrongNumberType" ->
            "expected " \o (CASE e.expected = "U64" -> "an unsigned 64-bit integer"
                              [] e.expected = "I64" -> "a signed 64-bit integer"
                              [] e.expected = "U32" -> "an unsigned 32-bit integer"
                              [] e.expected = "Float" -> "a floating point number")
      [] e.kind = "IndexOutOfBounds" ->
            "index " \o NatToString(e.index) \o " is out of bounds"

\* Value::to_string(): the compact JSON text of a value; a string is written
\* between double quotes.  Defined on the values an envelope's desc is drawn from.
RECURSIVE value_to_string(_)
value_to_string(v) ==
    CASE v.type = "Null" -> "null"
      [] v.type = "Bool" -> IF v.b THEN "true" ELSE "false"
      [] v.type = "Number" ->
            IF v.num.n = "Float" THEN v.num.text ELSE IntToString(v.num.int)
      [] v.type = "String" -> "\"" \o v.s \o "\""
      [] v.type = "Array" ->
            IF Len(v.vec) = 0 THEN "[]"
            ELSE LET RECURSIVE items(_)
                     items(i) == IF i = Len(v.vec)
                                 THEN value_to_string(v.vec[i])
                                 ELSE value_to_string(v.vec[i]) \o "," \o items(i + 1)
                 IN "[" \o items(1) \o "]"

(***************************************************************************)
(* The OpenProvider client: Builder, Client, Client::request.              *)
(***************************************************************************)
DEFAULT_MAX_RETRIES == 5
CODE_SUCCESS == 0
CODE_AUTH_FAILED == 196

Tokens == {"t1", "t2"}
OptTokens == {None} \cup {Some(t) : t \in Tokens}

Builder_new == [token |-> None, max_retries |-> DEFAULT_MAX_RETRIES]
Builder_token(b, t) == [b EXCEPT !.token = t]
Builder_max_retries(b, n) == [b EXCEPT !.max_retries = n]
Builder_no_max_retries(b) == [b EXCEPT !.max_retries = 0]
Builder_build(b) == [token |-> b.token, max_retries |-> b.max_retries]

\* The clients a caller can build.
Builders ==
    LET sized == {Builder_new} \cup {Builder_no_max_retries(Builder_new)}
                   \cup {Builder_max_retries(Builder_new, n) : n \in 0..MaxRetries}
    IN sized \cup {Builder_token(b, t) : b \in sized, t \in OptTokens}

\* The errors of the openprovider crate.
AuthenticationFailed == [kind |-> "AuthenticationFailed"]
UnknownRemoteError(code, desc) ==
    [kind |-> "UnknownRemoteError", code |-> code, desc |-> desc]
Json(message) == [kind |-> "Json", message |-> message]
Other(message) == [kind |-> "Other", message |-> message]

\* impl From<json::Error> for Error
from_json_error(e) == Json(json_error_to_string(e))

\* impl Display for Error (openprovider crate); Io is not produced by the model
error_to_string(e) ==
    CASE e.kind = "AuthenticationFailed" ->
            "OpenProvider did not accept the current authentication"
      [] e.kind = "UnknownRemoteError" ->
            "OpenProvider returned with error " \o NatToString(e.code) \o ": " \o e.desc
      [] e.kind = "Json" -> e.message
      [] e.kind = "Other" -> e.message

\* impl From<reqwest::Error> for Error; the messages are reqwest's.
SendError == Other("error sending request")
DecodeError == Other("error decoding response body")

\* The calls of Client::request made by login, list_zones, get_zone_internal
\* and set_record.
EmptyObject == Object([k \in {} |-> Null])
RequestArgs ==
    { [op |-> "login", method |-> "POST", url |-> "/v1beta/auth/login",
       body |-> Some(EmptyObject)],
      [op |-> "list_zones", method |-> "GET", url |-> "/v1beta/dns/zones",
       body |-> Some(EmptyObject)],
      [op |-> "get_zone", method |-> "GET", url |-> "/v1beta/dns/zones/example.com",
       body |-> None],
      [op |-> "set_record", method |-> "PUT", url |-> "/v1beta/dns/zones/example.com",
       body |-> Some(EmptyObject)] }

\* Faulty variant of build_request: the Authorization header is left out.
build_request_anonymous(tok, args) ==
    [method |-> args.method,
     url |-> args.url,
     accept |-> "*/*",
     json |-> args.body,
     authorization |-> None]

\* The builder of lines 314-323: Accept, the JSON body when there is one, the
\* Authorization header when a token is set.
build_request(tok, args) ==
    [method |-> args.method,
     url |-> args.url,
     accept |-> "*/*",
     json |-> args.body,
     authorization |-> IF tok.some THEN Some("Bearer " \o tok.val) ELSE None]

\* The statuses a server may answer with.
HttpStatuses == {200, 204, 404, 500}

\* The decoded bodies a server may answer with.
CodeValues == {Number(PosInt(CODE_SUCCESS)), Number(PosInt(CODE_AUTH_FAILED)),
               Number(PosInt(42)), Number(NegInt(-1)), String("oops")}
DataValues == {Null, EmptyObject, Object([k \in {"token"} |-> String("t2")])}
DescValues == {String("oops"), Null}
Envelopes ==
    UNION { { Object(map) : map \in
                { m \in [ks -> CodeValues \cup DataValues \cup DescValues] :
                    /\ ("code" \in ks => m["code"] \in CodeValues)
                    /\ ("data" \in ks => m["data"] \in DataValues)
                    /\ ("desc" \in ks => m["desc"] \in DescValues) } }
            : ks \in SUBSET Keys }
Responses == Envelopes \cup {Null, Array(<<>>)}

\* Lines 327-337 of Client::request: the envelope is unwrapped.
request_unwrap(resp) ==
    LET code_field == get_ok(resp, Key("code")) IN
    IF ~code_field.ok THEN Err(from_json_error(code_field.err)) ELSE
    LET code == as_u64_ok(code_field.val) IN
    IF ~code.ok THEN Err(from_json_error(code.err)) ELSE
    IF code.val = CODE_SUCCESS
    THEN LET data == get_ok(resp, Key("data")) IN
         IF ~data.ok THEN Err(from_json_error(data.err)) ELSE Ok(data.val)
    ELSE IF code.val = CODE_AUTH_FAILED
    THEN Err(AuthenticationFailed)
    ELSE LET desc == get_ok(resp, Key("desc")) IN
         IF ~desc.ok THEN Err(from_json_error(desc.err))
         ELSE Err(UnknownRemoteError(code.val, value_to_string(desc.val)))

\* Lines 220-230 of Client::request in the root crate (src/lib.rs), the older
\* copy: its UnknownRemoteError has the code only, desc is not read.
root_UnknownRemoteError(code) == [kind |-> "UnknownRemoteError", code |-> code]

root_request_unwrap(resp) ==
    LET code_field == root_get_ok(resp, Key("code")) IN
    IF ~code_field.ok THEN Err(from_json_error(code_field.err)) ELSE
    LET code == root_as_u64_ok(code_field.val) IN
    IF ~code.ok THEN Err(from_json_error(code.err)) ELSE
    IF code.val = CODE_SUCCESS
    THEN LET data == root_get_ok(resp, Key("data")) IN
         IF ~data.ok THEN Err(from_json_error(data.err)) ELSE Ok(data.val)
    ELSE IF code.val = CODE_AUTH_FAILED
    THEN Err(AuthenticationFailed)
    ELSE Err(root_UnknownRemoteError(code.val))

\* Client::get_token, Client::has_token, Client::set_token
get_token(tok) == tok
has_token(tok) == tok # None
set_token(t) == Some(t)

\* Line 280 of Client::login: the token is read from the data of the envelope.
login_token(res) ==
    IF ~res.ok THEN res ELSE
    LET tok == get_ok(res.val, Key("token")) IN
    IF ~tok.ok THEN Err(from_json_error(tok.err)) ELSE
    LET str == as_str_ok(tok.val) IN
    IF ~str.ok THEN Err(from_json_error(str.err)) ELSE Ok(str.val)

\* what the caller of Client::request makes of its result; only login is
\* followed here
finish(args, res, out) == IF args.op = "login" THEN login_token(res) ELSE out

\* Client::set_token
SetToken ==
    \E t \in Tokens :
        /\ pc \in {"idle", "done"}
        /\ token' = set_token(t)
        /\ configured' = [by |-> "set_token", token |-> Some(t)]
        /\ UNCHANGED <<max_retries, pc, attempts, request, response, result,
                       call, login_out, http_status>>
        /\ UNCHANGED <<jsonVars, ioVars, pipelineVars>>

\* Client::request is entered: the request is built (lines 312-323).
RequestBuild ==
    \E args \in RequestArgs :
        /\ pc \in {"idle", "done"}
        /\ pc' = "built"
        /\ call' = Some(args)
        /\ request' = Some(build_request(token, args))
        /\ attempts' = 0
        /\ response' = None
        /\ result' = NoResult
        /\ login_out' = NoResult
        /\ http_status' = 0
        /\ UNCHANGED <<token, max_retries, configured, jsonVars, ioVars, pipelineVars>>

\* builder.send() (line 325): the request goes out.
RequestSend ==
    /\ pc = "built"
    /\ pc' = "sent"
    /\ attempts' = attempts + 1
    /\ UNCHANGED <<token, max_retries, request, response, result, call,
                   configured, login_out, http_status, jsonVars, ioVars, pipelineVars>>

\* send().await? fails (line 325): the reqwest error is returned as Other.
SendFailed ==
    /\ pc = "sent"
    /\ pc' = "done"
    /\ result' = Err(SendError)
    /\ login_out' = finish(call.val, Err(SendError), login_out)
    /\ UNCHANGED <<token, max_retries, attempts, request, response, call,
                   configured, http_status, jsonVars, ioVars, pipelineVars>>

\* json().await? fails (line 326): the body is no JSON text.
DecodeFailed ==
    /\ pc = "sent"
    /\ pc' = "done"
    /\ result' = Err(DecodeError)
    /\ login_out' = finish(call.val, Err(DecodeError), login_out)
    /\ http_status' \in HttpStatuses
    /\ UNCHANGED <<token, max_retries, attempts, request, response, call,
                   configured, jsonVars, ioVars, pipelineVars>>

\* Faulty variant of RecvResponse: every error is retried while retries are left.
RecvResponseRetry ==
    \E resp \in Responses :
        /\ pc = "sent"
        /\ response' = Some(resp)
        /\ http_status' \in HttpStatuses
        /\ IF ~request_unwrap(resp).ok /\ attempts <= max_retries
           THEN pc' = "built" /\ result' = result /\ login_out' = login_out
           ELSE /\ pc' = "done"
                /\ result' = request_unwrap(resp)
                /\ login_out' = finish(call.val, request_unwrap(resp), login_out)
        /\ UNCHANGED <<token, max_retries, attempts, request, call, configured,
                       jsonVars, ioVars, pipelineVars>>

\* Faulty variant of RecvResponse: a rejected token is forgotten.
RecvResponseForgetting ==
    \E resp \in Responses :
        /\ pc = "sent"
        /\ pc' = "done"
        /\ response' = Some(resp)
        /\ http_status' \in HttpStatuses
        /\ result' = request_unwrap(resp)
        /\ login_out' = finish(call.val, request_unwrap(resp), login_out)
        /\ token' = IF request_unwrap(resp) = Err(AuthenticationFailed)
                    THEN None ELSE token
        /\ UNCHANGED <<max_retries, attempts, request, call, configured,
                       jsonVars, ioVars, pipelineVars>>

\* Faulty variant of RecvResponse: login installs the token it received.
RecvResponseInstalling ==
    \E resp \in Responses :
        /\ pc = "sent"
        /\ pc' = "done"
        /\ response' = Some(resp)
        /\ http_status' \in HttpStatuses
        /\ result' = request_unwrap(resp)
        /\ login_out' = finish(call.val, request_unwrap(resp), login_out)
        /\ token' = IF call.val.op = "login" /\ login_token(request_unwrap(resp)).ok
                    THEN Some(login_token(request_unwrap(resp)).val) ELSE token
        /\ UNCHANGED <<max_retries, attempts, request, call, configured,
                       jsonVars, ioVars, pipelineVars>>

\* A body arrives and is decoded; the envelope is unwrapped and the call returns
\* (lines 324-337).
RecvResponse ==
    \E resp \in Responses :
        /\ pc = "sent"
        /\ pc' = "done"
        /\ response' = Some(resp)
        /\ http_status' \in HttpStatuses
        /\ result' = request_unwrap(resp)
        /\ login_out' = finish(call.val, request_unwrap(resp), login_out)
        /\ UNCHANGED <<token, max_retries, attempts, request, call, configured,
                       jsonVars, ioVars, pipelineVars>>

InitClient ==
    /\ \E b \in Builders :
          LET client == Builder_build(b) IN
          /\ token = client.token
          /\ max_retries = client.max_retries
          /\ configured = [by |-> "builder", token |-> b.token]
    /\ pc = "idle"
    /\ attempts = 0
    /\ request = None
    /\ response = None
    /\ result = NoResult
    /\ call = None
    /\ login_out = NoResult
    /\ http_status = 0
    /\ JsonIdle
    /\ IoIdle
    /\ PipelineIdle

NextClient ==
    \/ SetToken
    \/ RequestBuild
    \/ RequestSend
    \/ SendFailed
    \/ DecodeFailed
    \/ RecvResponse

SpecClient == InitClient /\ [][NextClient]_vars

(***************************************************************************)
(* IOResultExt: the classifier of std::io results.  A predicate over       *)
(* ErrorKind is given by the set of kinds it accepts.                      *)
(***************************************************************************)
ErrorKinds ==
    {"NotFound", "PermissionDenied", "ConnectionRefused", "ConnectionReset",
     "ConnectionAborted", "NotConnected", "AddrInUse", "AddrNotAvailable",
     "BrokenPipe", "AlreadyExists", "WouldBlock", "InvalidInput", "InvalidData",
     "TimedOut", "WriteZero", "Interrupted", "Unsupported", "UnexpectedEof",
     "OutOfMemory", "Other"}

IoError(kind, msg) == [kind |-> kind, msg |-> msg]
IoErrors == {IoError(k, m) : k \in ErrorKinds, m \in {"os error", "custom"}}
IoResults == {Ok(s) : s \in {"", "contents"}} \cup {Err(e) : e \in IoErrors}

Preds == {{k} : k \in ErrorKinds} \cup {{}, ErrorKinds,
                                        {"ConnectionRefused", "ConnectionReset"}}

\* Faulty variant of ok_kind: the predicate's answer is read the wrong way round.
ok_kind_inverted(self, pred) ==
    IF self.ok
    THEN [res |-> Ok(Some(self.val)), pred_called |-> FALSE]
    ELSE IF self.err.kind \notin pred
         THEN [res |-> Ok(None), pred_called |-> TRUE]
         ELSE [res |-> Err(self.err), pred_called |-> TRUE]

\* impl IOResultExt for Result<T, Error>: ok_kind.  pred_called records whether
\* the predicate was applied.
ok_kind(self, pred) ==
    IF self.ok
    THEN [res |-> Ok(Some(self.val)), pred_called |-> FALSE]
    ELSE IF self.err.kind \in pred
         THEN [res |-> Ok(None), pred_called |-> TRUE]
         ELSE [res |-> Err(self.err), pred_called |-> TRUE]

\* IOResultExt::ok_not_found
ok_not_found(self) == ok_kind(self, {"NotFound"})

\* The named predicates of IOResultExt that are compiled without the
\* io_error_more feature, each as the source writes it.
ok_permission_denied(self) == ok_kind(self, {"PermissionDenied"})
ok_connection_refused(self) == ok_kind(self, {"ConnectionRefused"})
ok_connection_reset(self) == ok_kind(self, {"ConnectionRefused"})
ok_connection_aborted(self) == ok_kind(self, {"ConnectionAborted"})
ok_not_connected(self) == ok_kind(self, {"NotConnected"})
ok_addr_in_use(self) == ok_kind(self, {"AddrInUse"})
ok_addr_not_available(self) == ok_kind(self, {"AddrNotAvailable"})
ok_broken_pipe(self) == ok_kind(self, {"BrokenPipe"})
ok_already_exists(self) == ok_kind(self, {"AlreadyExists"})
ok_would_block(self) == ok_kind(self, {"WouldBlock"})
ok_invalid_input(self) == ok_kind(self, {"InvalidInput"})
ok_invalid_data(self) == ok_kind(self, {"InvalidData"})
ok_timed_out(self) == ok_kind(self, {"TimedOut"})
ok_write_zero(self) == ok_kind(self, {"WriteZero"})
ok_interrupted(self) == ok_kind(self, {"Interrupted"})
ok_unsupported(self) == ok_kind(self, {"Unsupported"})
ok_unexpected_eof(self) == ok_kind(self, {"UnexpectedEof"})
ok_out_of_memory(self) == ok_kind(self, {"OutOfMemory"})
ok_other(self) == ok_kind(self, {"Other"})

NamedMethods ==
    {"ok_permission_denied", "ok_connection_refused", "ok_connection_reset",
     "ok_connection_aborted", "ok_not_connected", "ok_addr_in_use",
     "ok_addr_not_available", "ok_broken_pipe", "ok_already_exists",
     "ok_would_block", "ok_invalid_input", "ok_invalid_data",
     "ok_timed_out", "ok_write_zero", "ok_interrupted", "ok_unsupported",
     "ok_unexpected_eof", "ok_out_of_memory", "ok_other"}

\* The call self.<name>() of a named predicate.
call_named(name, self) ==
    CASE name = "ok_permission_denied" -> ok_permission_denied(self)
      [] name = "ok_connection_refused" -> ok_connection_refused(self)
      [] name = "ok_connection_reset" -> ok_connection_reset(self)
      [] name = "ok_connection_aborted" -> ok_connection_aborted(self)
      [] name = "ok_not_connected" -> ok_not_connected(self)
      [] name = "ok_addr_in_use" -> ok_addr_in_use(self)
      [] name = "ok_addr_not_available" -> ok_addr_not_available(self)
      [] name = "ok_broken_pipe" -> ok_broken_pipe(self)
      [] name = "ok_already_exists" -> ok_already_exists(self)
      [] name = "ok_would_block" -> ok_would_block(self)
      [] name = "ok_invalid_input" -> ok_invalid_input(self)
      [] name = "ok_invalid_data" -> ok_invalid_data(self)
      [] name = "ok_timed_out" -> ok_timed_out(self)
      [] name = "ok_write_zero" -> ok_write_zero(self)
      [] name = "ok_interrupted" -> ok_interrupted(self)
      [] name = "ok_unsupported" -> ok_unsupported(self)
      [] name = "ok_unexpected_eof" -> ok_unexpected_eof(self)
      [] name = "ok_out_of_memory" -> ok_out_of_memory(self)
      [] name = "ok_other" -> ok_other(self)

OkKind ==
    \E pred \in Preds :
        /\ io_pred' = [name |-> "ok_kind", kinds |-> pred]
        /\ io_out' = ok_kind(io_self, pred)
        /\ UNCHANGED <<io_self, jsonVars, clientVars, pipelineVars>>

OkNotFound ==
    /\ io_pred' = [name |-> "ok_not_found"]
    /\ io_out' = ok_not_found(io_self)
    /\ UNCHANGED <<io_self, jsonVars, clientVars, pipelineVars>>

OkNamed ==
    \E name \in NamedMethods :
        /\ io_pred' = [name |-> name]
        /\ io_out' = call_named(name, io_self)
        /\ UNCHANGED <<io_self, jsonVars, clientVars, pipelineVars>>

InitIO ==
    /\ io_self \in IoResults
    /\ io_pred = [name |-> "none"]
    /\ io_out = NoResult
    /\ JsonIdle
    /\ ClientIdle
    /\ PipelineIdle

NextIO ==
    \/ OkKind
    \/ OkNotFound
    \/ OkNamed

SpecIO == InitIO /\ [][NextIO]_vars

(***************************************************************************)
(* registrar_common::Error, the unified error of the common crate.         *)
(***************************************************************************)
HttpErrorKinds ==
    {"Parse", "ParseTooLarge", "ParseStatus", "User", "Canceled", "Closed",
     "IncCmpleteMessage", "BodyWriteAborted", "Timeout", "Unknown"}

Http(kind, message) == [kind |-> "Http", http_kind |-> kind, message |-> message]
Io(error) == [kind |-> "Io", error |-> error]
InvalidUri(message) == [kind |-> "InvalidUri", message |-> message]
StatusCode(status) == [kind |-> "StatusCode", status |-> status]
OtherJson(message) == [kind |-> "OtherJson", message |-> message]

(***************************************************************************)
(* ApiClient and ApiRequest::send.  A URL is a text; hyper::Uri's parser   *)
(* is given as a table over the texts of the model: absolute form with and *)
(* without a port, with a scheme other than http and https, origin form,   *)
(* authority form, and texts that are not a URI.                           *)
(***************************************************************************)
Uri(scheme, host, port) ==
    [scheme |-> scheme, host |-> host, port |-> port,
     authority |-> IF host = None THEN None
                   ELSE IF port = None THEN host
                   ELSE Some(host.val \o ":" \o NatToString(port.val))]

BaseUrls ==
    {"http://api.test", "https://api.test", "http://api.test:8080",
     "ftp://api.test", "ftp://api.test:21", "api.test:8080", "api.test",
     "", "http://api test"}

Paths == {"", "/zones"}

\* str::parse::<hyper::Uri>() on base_url followed by path
parse_uri(base, path) ==
    CASE base = "http://api.test" -> Ok(Uri(Some("http"), Some("api.test"), None))
      [] base = "https://api.test" -> Ok(Uri(Some("https"), Some("api.test"), None))
      [] base = "http://api.test:8080" ->
            Ok(Uri(Some("http"), Some("api.test"), Some(8080)))
      [] base = "ftp://api.test" -> Ok(Uri(Some("ftp"), Some("api.test"), None))
      [] base = "ftp://api.test:21" ->
            Ok(Uri(Some("ftp"), Some("api.test"), Some(21)))
      [] base = "api.test:8080" ->
            IF path = "" THEN Ok(Uri(None, Some("api.test"), Some(8080)))
            ELSE Err("invalid format")
      [] base = "api.test" ->
            IF path = "" THEN Ok(Uri(None, Some("api.test"), None))
            ELSE Err("invalid format")
      [] base = "" ->
            IF path = "" THEN Err("empty string")
            ELSE Ok(Uri(None, None, None))
      [] OTHER -> Err("invalid uri character")

ApiClient_get(base_url, path) ==
    [base |-> base_url, path |-> path, url |-> base_url \o path,
     method |-> "GET", bearer |-> None]

ApiRequests == {ApiClient_get(b, p) : b \in BaseUrls, p \in Paths}

Panic == [outcome |-> "panic"]

\* the port of lines 160-167: None stands for unreachable!()
send_port(url) ==
    IF url.port = None
    THEN CASE url.scheme = Some("http") -> Some(80)
           [] url.scheme = Some("https") -> Some(443)
           [] OTHER -> None
    ELSE url.port

\* the part of send before its first await: the URL is parsed, the port and
\* the address are computed
send_prologue(req) ==
    LET parsed == parse_uri(req.base, req.path) IN
    IF ~parsed.ok THEN [outcome |-> "return", res |-> Err(InvalidUri(parsed.err))]
    ELSE LET url == parsed.val
             port == send_port(url)
         IN IF port = None THEN Panic
            ELSE IF url.scheme = None \/ url.host = None THEN Panic
            ELSE [outcome |-> "connect", url |-> url,
                  address |-> url.scheme.val \o "://" \o url.host.val \o ":"
                                  \o NatToString(port.val)]

\* the request of lines 183-187
send_build(req, url) ==
    IF url.authority = None THEN Err(InvalidUri("authority is missing"))
    ELSE Ok([method |-> req.method, uri |-> req.url,
             host |-> url.authority.val, authorization |-> None,
             body |-> None])

Statuses == {199, 200, 204, 299, 300, 301, 404, 500}

\* bodies of a response and what serde_json::from_slice makes of them
Bodies == {"{}", "null", "", "<html>"}

from_slice(bytes) ==
    CASE bytes = "{}" -> Ok(EmptyObject)
      [] bytes = "null" -> Ok(Null)
      [] OTHER -> Err(OtherJson("expected value"))

IoFailures == {IoError("ConnectionRefused", "os error"), IoError("TimedOut", "os error")}

SendStart ==
    /\ s_req # None
    /\ s_pc = "new"
    /\ LET p == send_prologue(s_req) IN
       CASE p.outcome = "return" ->
                s_pc' = "returned" /\ s_result' = p.res
         [] p.outcome = "panic" ->
                s_pc' = "panicked" /\ UNCHANGED s_result
         [] OTHER ->
                s_pc' = "connect" /\ UNCHANGED s_result
    /\ UNCHANGED <<s_req, s_server, s_conn, s_wire, s_status, s_body,
                   jsonVars, clientVars, ioVars, errVars, pbVars, recVars>>

\* TcpStream::connect(address).await?
Connected ==
    /\ s_pc = "connect"
    /\ s_pc' = "handshake"
    /\ s_conn' = "open"
    /\ UNCHANGED <<s_req, s_server, s_wire, s_status, s_body, s_result,
                   jsonVars, clientVars, ioVars, errVars, pbVars, recVars>>

ConnectFailed ==
    /\ s_pc = "connect"
    /\ \E e \in IoFailures :
          s_result' = Err(Io(e))
    /\ s_pc' = "returned"
    /\ UNCHANGED <<s_req, s_server, s_conn, s_wire, s_status, s_body,
                   jsonVars, clientVars, ioVars, errVars, pbVars, recVars>>

\* hyper::client::conn::http1::handshake(io).await?
Handshaken ==
    /\ s_pc = "handshake"
    /\ s_pc' = "conn"
    /\ UNCHANGED <<s_req, s_server, s_conn, s_wire, s_status, s_body, s_result,
                   jsonVars, clientVars, ioVars, errVars, pbVars, recVars>>

\* Faulty variant of HandshakeFailed: the stream outlives the failed handshake.
HandshakeFailedLeaking ==
    /\ s_pc = "handshake"
    /\ s_pc' = "returned"
    /\ s_result' = Err(Http("Canceled", "handshake"))
    /\ UNCHANGED <<s_req, s_server, s_conn, s_wire, s_status, s_body,
                   jsonVars, clientVars, ioVars, errVars, pbVars, recVars>>

HandshakeFailed ==
    /\ s_pc = "handshake"
    /\ s_pc' = "returned"
    /\ s_conn' = "closed"
    /\ s_result' = Err(Http("Canceled", "handshake"))
    /\ UNCHANGED <<s_req, s_server, s_wire, s_status, s_body,
                   jsonVars, clientVars, ioVars, errVars, pbVars, recVars>>

\* conn.await?  The connection future is awaited to its end, and consumed,
\* before the request is built (lines 180-187).  The future of a connection
\* ends when the connection does: the server has closed it.
ConnDone ==
    /\ s_pc = "conn"
    /\ s_server = "closes"
    /\ s_conn' = "closed"
    /\ LET built == send_build(s_req, send_prologue(s_req).url) IN
       IF built.ok
       THEN s_pc' = "send_request" /\ UNCHANGED s_result
       ELSE s_pc' = "returned" /\ s_result' = built
    /\ UNCHANGED <<s_req, s_server, s_wire, s_status, s_body,
                   jsonVars, clientVars, ioVars, errVars, pbVars, recVars>>

ConnFailed ==
    /\ s_pc = "conn"
    /\ s_server = "closes"
    /\ s_pc' = "returned"
    /\ s_conn' = "closed"
    /\ s_result' = Err(Http("Closed", "connection"))
    /\ UNCHANGED <<s_req, s_server, s_wire, s_status, s_body,
                   jsonVars, clientVars, ioVars, errVars, pbVars, recVars>>

\* sender.send_request(req).await? gives a response, whose status is looked
\* at (lines 190-195).  What the library answers is the environment's choice.
Responded ==
    /\ s_pc = "send_request"
    /\ s_wire' = Some(send_build(s_req, send_prologue(s_req).url).val)
    /\ \E status \in Statuses :
          /\ s_status' = status
          /\ IF status < 200 \/ status > 300
             THEN s_pc' = "returned" /\ s_result' = Err(StatusCode(status))
             ELSE s_pc' = "body" /\ UNCHANGED s_result
    /\ UNCHANGED <<s_req, s_server, s_conn, s_body,
                   jsonVars, clientVars, ioVars, errVars, pbVars, recVars>>

SendRequestFailed ==
    /\ s_pc = "send_request"
    /\ s_wire' = Some(send_build(s_req, send_prologue(s_req).url).val)
    /\ s_pc' = "returned"
    /\ s_result' = Err(Http("Canceled", "send_request"))
    /\ UNCHANGED <<s_req, s_server, s_conn, s_status, s_body,
                   jsonVars, clientVars, ioVars, errVars, pbVars, recVars>>

\* res.into_body().collect().await?.to_bytes(), serde_json::from_slice
BodyCollected ==
    /\ s_pc = "body"
    /\ s_body' = TRUE
    /\ s_pc' = "returned"
    /\ \E bytes \in Bodies :
          s_result' = from_slice(bytes)
    /\ UNCHANGED <<s_req, s_server, s_conn, s_wire, s_status,
                   jsonVars, clientVars, ioVars, errVars, pbVars, recVars>>

BodyFailed ==
    /\ s_pc = "body"
    /\ s_pc' = "returned"
    /\ s_result' = Err(Http("IncCmpleteMessage", "body"))
    /\ UNCHANGED <<s_req, s_server, s_conn, s_wire, s_status, s_body,
                   jsonVars, clientVars, ioVars, errVars, pbVars, recVars>>

InitSend ==
    /\ s_req \in ApiRequests
    /\ s_pc = "new"
    /\ s_conn = "none"
    /\ s_wire = None
    /\ s_status = 0
    /\ s_body = FALSE
    /\ s_result = NoResult
    /\ s_server \in {"keeps_open", "closes"}
    /\ JsonIdle
    /\ ClientIdle
    /\ IoIdle
    /\ ErrorIdle
    /\ PorkbunIdle
    /\ RecordsIdle

NextSend ==
    \/ SendStart
    \/ Connected
    \/ ConnectFailed
    \/ Handshaken
    \/ HandshakeFailed
    \/ ConnDone
    \/ ConnFailed
    \/ Responded
    \/ SendRequestFailed
    \/ BodyCollected
    \/ BodyFailed

SpecSend == InitSend /\ [][NextSend]_vars

\* send is polled by its executor for as long as it can make a step
SpecSendFair == SpecSend /\ WF_vars(NextSend)

\* The two request pipelines side by side: a run is a run of the OpenProvider
\* client or a run of ApiRequest::send.
InitPipelines == InitClient \/ InitSend

NextPipelines ==
    \/ s_req = None /\ NextClient
    \/ s_req # None /\ NextSend

SpecPipelines == InitPipelines /\ [][NextPipelines]_vars

(***************************************************************************)
(* registrar_common::Error: the values of the enum, the conversions from   *)
(* foreign errors, and Display.                                            *)
(***************************************************************************)
Messages == {"", "oops"}
ValueTypes == {"Null", "Bool", "Number", "String", "Array", "Object"}
NumberTypes == {"I64", "U64", "U32", "Float"}
ApiCodes == {None, Some(CODE_AUTH_FAILED)}

UnitErrors ==
    {"AuthenticationFailed", "MissingPath", "ParseStatusCode", "Method",
     "HeaderName", "HeaderValue", "MaxSizeReached"}

Generic(message) == [kind |-> "Generic", message |-> message]

Errors ==
    {[kind |-> k] : k \in UnitErrors}
    \cup {[kind |-> "Api", code |-> c, message |-> m] : c \in ApiCodes, m \in Messages}
    \cup {Http(k, m) : k \in HttpErrorKinds, m \in Messages}
    \cup {StatusCode(s) : s \in Statuses}
    \cup {InvalidUri(m) : m \in Messages}
    \cup {Io(e) : e \in IoErrors}
    \cup {[kind |-> "IndexOutOfBounds", index |-> i] : i \in 0..MaxLen}
    \cup {[kind |-> "KeyMissing", key |-> k] : k \in Keys}
    \cup {[kind |-> "WrongType", value |-> v, expected |-> t] :
             v \in Scalars, t \in ValueTypes}
    \cup {[kind |-> "WrongNumberType", num |-> n, expected |-> t] :
             n \in Numbers, t \in NumberTypes}
    \cup {OtherJson(m) : m \in Messages}
    \cup {Generic(m) : m \in Messages}

\* impl Display for NumberType
describe_number(expected) ==
    CASE expected = "U64" -> "an unsigned 64-bit integer"
      [] expected = "I64" -> "a signed 64-bit integer"
      [] expected = "U32" -> "an unsigned 32-bit integer"
      [] expected = "Float" -> "a floating point number"

Shown(text) == [outcome |-> "text", text |-> text]

\* impl Display for Error; the arm `_ => todo!()` panics
fmt(e) ==
    CASE e.kind = "AuthenticationFailed" -> Shown("failed to authenticate with API")
      [] e.kind = "Http" -> Shown(e.message)
      [] e.kind = "Api" ->
            Shown("API returned with error: " \o e.message \o
                  (IF e.code = None THEN ""
                   ELSE " (code " \o NatToString(e.code.val) \o ")"))
      [] e.kind = "Io" -> Shown("input/output error: " \o e.error.msg)
      [] e.kind = "KeyMissing" ->
            Shown("key '" \o e.key \o "' is missing in JSON-value")
      [] e.kind = "WrongType" ->
            Shown("expected " \o describe(e.expected) \o " but got another JSON-value")
      [] e.kind = "WrongNumberType" ->
            Shown("expected " \o describe_number(e.expected)
                      \o " but got another type of number")
      [] e.kind = "IndexOutOfBounds" ->
            Shown("index " \o NatToString(e.index) \o " is out of bounds in JSON-array")
      [] e.kind = "OtherJson" -> Shown(e.message)
      [] e.kind = "Generic" -> Shown(e.message)
      [] OTHER -> Panic

\* The causes of a hyper::Error (hyper 1.x: Kind and its Parse and User parts).
HyperCauses ==
    {"Parse(Header)", "Parse(TooLarge)", "Parse(Status)", "User(Service)",
     "User(BodyWriteAborted)", "Canceled", "ChannelClosed", "IncompleteMessage",
     "HeaderTimeout", "Io", "Shutdown"}

is_parse(c) == c \in {"Parse(Header)", "Parse(TooLarge)", "Parse(Status)"}
is_parse_status(c) == c = "Parse(Status)"
is_user(c) == c \in {"User(Service)", "User(BodyWriteAborted)"}
is_canceled(c) == c = "Canceled"
is_closed(c) == c = "ChannelClosed"
is_incomplete_message(c) == c = "IncompleteMessage"
is_body_write_aborted(c) == c = "User(BodyWriteAborted)"
is_timeout(c) == c = "HeaderTimeout"

HyperError(cause, message) == [from |-> "hyper", cause |-> cause, message |-> message]
HyperErrors == {HyperError(c, m) : c \in HyperCauses, m \in Messages}

\* impl From<hyper::Error> for Error
from_hyper_error(error) ==
    LET c == error.cause
        kind == IF is_parse(c) THEN "Parse"
                ELSE IF is_parse_status(c) THEN "ParseStatus"
                ELSE IF is_user(c) THEN "User"
                ELSE IF is_canceled(c) THEN "Canceled"
                ELSE IF is_closed(c) THEN "Closed"
                ELSE IF is_incomplete_message(c) THEN "IncCmpleteMessage"
                ELSE IF is_body_write_aborted(c) THEN "BodyWriteAborted"
                ELSE IF is_timeout(c) THEN "Timeout"
                ELSE "Unknown"
    IN Http(kind, error.message)

\* what an http::Error wraps
HttpErrorCauses ==
    {"MaxSizeReached", "InvalidHeaderName", "InvalidHeaderValue", "InvalidUri",
     "InvalidStatusCode", "InvalidMethod"}
HttpErrors == {[from |-> "http", is |-> c, message |-> m] :
                  c \in HttpErrorCauses, m \in Messages}

\* impl From<http::Error> for Error
from_http_error(value) ==
    IF value.is = "MaxSizeReached" THEN [kind |-> "MaxSizeReached"]
    ELSE IF value.is = "InvalidHeaderName" THEN [kind |-> "HeaderName"]
    ELSE IF value.is = "InvalidHeaderValue" THEN [kind |-> "HeaderValue"]
    ELSE IF value.is = "InvalidUri" THEN InvalidUri(value.message)
    ELSE IF value.is = "InvalidStatusCode" THEN [kind |-> "ParseStatusCode"]
    ELSE Generic("unknown HTTP error")

SerdeCategories == {"Io", "Syntax", "Data", "Eof"}
SerdeErrors ==
    {[from |-> "serde_json", category |-> c, message |-> m,
      io |-> IoError("UnexpectedEof", m)] : c \in SerdeCategories, m \in Messages}

\* impl From<serde_json::Error> for Error
from_serde_json_error(error) ==
    IF error.category = "Io" THEN Io(error.io) ELSE OtherJson(error.message)

InvalidUriErrors == {[from |-> "InvalidUri", message |-> m] : m \in Messages}

\* impl From<InvalidUri> for Error
from_invalid_uri(error) == InvalidUri(error.message)

StdIoErrors == {[from |-> "io", error |-> e] : e \in IoErrors}

\* impl From<std::io::Error> for Error
from_io_error(error) == Io(error.error)

ForeignErrors ==
    HyperErrors \cup HttpErrors \cup SerdeErrors \cup InvalidUriErrors \cup StdIoErrors

\* an Error built by a constructor of the enum
Construct ==
    /\ e_src = None
    /\ e_err = None
    /\ \E e \in Errors : e_err' = Some(e)
    /\ UNCHANGED <<e_src, e_shown, jsonVars, clientVars, ioVars, sendVars, pbVars, recVars>>

FromHyper ==
    /\ e_src # None /\ e_src.val.from = "hyper"
    /\ e_err = None
    /\ e_err' = Some(from_hyper_error(e_src.val))
    /\ UNCHANGED <<e_src, e_shown, jsonVars, clientVars, ioVars, sendVars, pbVars, recVars>>

FromHttp ==
    /\ e_src # None /\ e_src.val.from = "http"
    /\ e_err = None
    /\ e_err' = Some(from_http_error(e_src.val))
    /\ UNCHANGED <<e_src, e_shown, jsonVars, clientVars, ioVars, sendVars, pbVars, recVars>>

FromSerdeJson ==
    /\ e_src # None /\ e_src.val.from = "serde_json"
    /\ e_err = None
    /\ e_err' = Some(from_serde_json_error(e_src.val))
    /\ UNCHANGED <<e_src, e_shown, jsonVars, clientVars, ioVars, sendVars, pbVars, recVars>>

FromInvalidUri ==
    /\ e_src # None /\ e_src.val.from = "InvalidUri"
    /\ e_err = None
    /\ e_err' = Some(from_invalid_uri(e_src.val))
    /\ UNCHANGED <<e_src, e_shown, jsonVars, clientVars, ioVars, sendVars, pbVars, recVars>>

FromIo ==
    /\ e_src # None /\ e_src.val.from = "io"
    /\ e_err = None
    /\ e_err' = Some(from_io_error(e_src.val))
    /\ UNCHANGED <<e_src, e_shown, jsonVars, clientVars, ioVars, sendVars, pbVars, recVars>>

\* to_string() of the error
Display ==
    /\ e_err # None
    /\ e_shown' = fmt(e_err.val)
    /\ UNCHANGED <<e_src, e_err, jsonVars, clientVars, ioVars, sendVars, pbVars, recVars>>

InitError ==
    /\ e_src \in {None} \cup {Some(s) : s \in ForeignErrors}
    /\ e_err = None
    /\ e_shown = None
    /\ JsonIdle
    /\ ClientIdle
    /\ IoIdle
    /\ SendIdle
    /\ PorkbunIdle
    /\ RecordsIdle

NextError ==
    \/ Construct
    \/ FromHyper
    \/ FromHttp
    \/ FromSerdeJson
    \/ FromInvalidUri
    \/ FromIo
    \/ Display

SpecError == InitError /\ [][NextError]_vars

(***************************************************************************)
(* The porkbun client: Builder, DnsRecord, Client::request as called by    *)
(* Client::create_dns_record.                                              *)
(***************************************************************************)
ApiKeys == {"pk1", "pk2"}
SecretApiKeys == {"sk1", "sk2"}

\* Builder::build
Porkbun_build(api_key, secret_api_key) == Some(<<api_key, secret_api_key>>)

DnsRecords ==
    [secret_api_key : SecretApiKeys, api_key : ApiKeys, name : {"www"},
     ty : {"A", "TXT"}, content : {"192.0.2.1"}, ttl : {None, Some(42)},
     prio : {None}]

OptU32Value(o) == IF o = None THEN Null ELSE Number(PosInt(o.val))

\* serde_json::to_value(record), with the renamed fields
to_value(record) ==
    Object([secretapikey |-> String(record.secret_api_key),
            apikey |-> String(record.api_key),
            name |-> String(record.name),
            type |-> String(record.ty),
            content |-> String(record.content),
            ttl |-> OptU32Value(record.ttl),
            prio |-> OptU32Value(record.prio)])

\* serde_json::Map::insert: the value stored under key, if any, is replaced
insert(map, key, value) ==
    [k \in DOMAIN map \cup {key} |-> IF k = key THEN value ELSE map[k]]

\* the body Client::request sends for the body it is given (lines 137-142)
porkbun_body(keys, body) ==
    IF keys = None THEN body
    ELSE Object(insert(insert(body.map, "apikey", String(keys.val[1])),
                       "secretapikey", String(keys.val[2])))

PorkbunResponses ==
    {Object([status |-> String("SUCCESS"), id |-> String("106926659")]),
     Object([status |-> String("SUCCESS")]),
     Object([status |-> String("ERROR"), message |-> String("Invalid API key.")]),
     Object([status |-> String("ERROR")]),
     EmptyObject,
     Null}

\* `?` on a Result<_, json::Error> inside the porkbun client
porkbun_json(res) == IF res.ok THEN res ELSE Err(from_json_error(res.err))

\* what Client::request returns for a decoded response (lines 146-150)
porkbun_unwrap(resp) ==
    LET st == get_ok(resp, Key("status")) IN
    IF ~st.ok THEN porkbun_json(st)
    ELSE LET s == as_str_ok(st.val) IN
         IF ~s.ok THEN porkbun_json(s)
         ELSE IF s.val # "SUCCESS"
         THEN LET m == get_ok(resp, Key("message")) IN
              IF ~m.ok THEN porkbun_json(m)
              ELSE LET ms == as_str_ok(m.val) IN
                   IF ~ms.ok THEN porkbun_json(ms) ELSE Err(Other(ms.val))
         ELSE Ok(resp)

\* what create_dns_record makes of the result of Client::request (line 161)
create_dns_record_id(res) ==
    IF ~res.ok THEN res
    ELSE LET id == get_ok(res.val, Key("id")) IN
         IF ~id.ok THEN porkbun_json(id) ELSE porkbun_json(as_str_ok(id.val))

\* create_dns_record up to builder.send(): the record is serialized, the keys
\* of the client are inserted, the body is attached to the request
CreateDnsRecord ==
    /\ pb_pc = "idle"
    /\ \E record \in DnsRecords :
          /\ pb_given' = Some(to_value(record))
          /\ pb_sent' = Some(porkbun_body(pb_keys, to_value(record)))
    /\ pb_pc' = "sent"
    /\ UNCHANGED <<pb_keys, pb_result, jsonVars, clientVars, ioVars, sendVars, errVars, recVars>>

\* send().await? or json().await? failed
PorkbunSendFailed ==
    /\ pb_pc = "sent"
    /\ pb_pc' = "done"
    /\ \E e \in {SendError, DecodeError} : pb_result' = Err(e)
    /\ UNCHANGED <<pb_keys, pb_given, pb_sent, jsonVars, clientVars, ioVars,
                   sendVars, errVars, recVars>>

PorkbunResponded ==
    /\ pb_pc = "sent"
    /\ pb_pc' = "done"
    /\ \E resp \in PorkbunResponses :
          pb_result' = create_dns_record_id(porkbun_unwrap(resp))
    /\ UNCHANGED <<pb_keys, pb_given, pb_sent, jsonVars, clientVars, ioVars,
                   sendVars, errVars, recVars>>

InitPorkbun ==
    /\ pb_keys \in {Porkbun_build(k, s) : k \in ApiKeys, s \in SecretApiKeys}
    /\ pb_pc = "idle"
    /\ pb_given = None
    /\ pb_sent = None
    /\ pb_result = NoResult
    /\ JsonIdle
    /\ ClientIdle
    /\ IoIdle
    /\ SendIdle
    /\ ErrorIdle
    /\ RecordsIdle

NextPorkbun ==
    \/ CreateDnsRecord
    \/ PorkbunSendFailed
    \/ PorkbunResponded

SpecPorkbun == InitPorkbun /\ [][NextPorkbun]_vars

(***************************************************************************)
(* Client::list_records.  A name is the sequence of its characters (ASCII, *)
(* one byte each); of a Zone and a Record only the fields list_records     *)
(* looks at are kept.                                                      *)
(***************************************************************************)
ZoneNames == {<<"a", ".", "b">>, <<"b">>}

RecordNames ==
    {<<"a", ".", "b">>, <<"w", ".", "a", ".", "b">>, <<"x", ".", "y">>,
     <<"w", "a", ".", "b">>, <<"b">>, <<>>}

Records == [name : RecordNames, value : {"192.0.2.1"}]

Zones == [records : {None} \cup {Some(rs) : rs \in SeqsUpTo(Records, MaxLen)}]

\* what get_zone_internal returns: a Zone, or the error of the request or of
\* the deserialization
ZoneResults ==
    {Ok(z) : z \in Zones} \cup {Err(AuthenticationFailed), Err(Json("missing field id"))}

\* usize subtraction: with overflow checks it panics below zero, without it wraps
usize_sub(a, b, checks) ==
    IF a >= b THEN Ok(a - b)
    ELSE IF checks THEN Err("attempt to subtract with overflow")
    ELSE Ok((a - b) % Pow2(U64Bits))

\* chars().take(n).collect()
take(name, n) == SubSeq(name, 1, IF n < Len(name) THEN n ELSE Len(name))

\* the name field of the closure: the name of a record made relative to the zone
relative_name(r_name, name_ref, checks) ==
    IF Len(r_name) = Len(name_ref) THEN Ok(r_name)
    ELSE LET d == usize_sub(Len(r_name), Len(name_ref), checks) IN
         IF ~d.ok THEN d
         ELSE LET n == usize_sub(d.val, 1, checks) IN
              IF ~n.ok THEN n ELSE Ok(take(r_name, n.val))

\* the body of Client::list_records
list_records(name_ref, zone, checks) ==
    IF ~zone.ok THEN zone
    ELSE IF zone.val.records = None THEN Panic
    ELSE LET rs == zone.val.records.val
             names == [i \in 1..Len(rs) |-> relative_name(rs[i].name, name_ref, checks)]
         IN IF \E i \in 1..Len(rs) : ~names[i].ok THEN Panic
            ELSE Ok([i \in 1..Len(rs) |-> [rs[i] EXCEPT !.name = names[i].val]])

ListRecords ==
    /\ lr_zone # NoResult
    /\ lr_out = NoResult
    /\ lr_out' = list_records(lr_name, lr_zone, lr_checks)
    /\ UNCHANGED <<lr_name, lr_zone, lr_checks, jsonVars, clientVars, ioVars,
                   sendVars, errVars, pbVars>>

InitRecords ==
    /\ lr_name \in ZoneNames
    /\ lr_zone \in ZoneResults
    /\ lr_checks \in BOOLEAN
    /\ lr_out = NoResult
    /\ JsonIdle
    /\ ClientIdle
    /\ IoIdle
    /\ SendIdle
    /\ ErrorIdle
    /\ PorkbunIdle

NextRecords == ListRecords

SpecRecords == InitRecords /\ [][NextRecords]_vars

(***************************************************************************)
(* The typed accessor: get_ok and the coercions (checked under SpecJson).  *)
(***************************************************************************)
KeyCall == jcall.op = "get_ok" /\ jcall.index.ix = "str"
PosCall == jcall.op = "get_ok" /\ jcall.index.ix = "usize"

\* C1: get_ok(k) with a string key k on an Object returns Ok(the member stored
\* under k) when k is a key of the object, and the error KeyMissing(k), carrying
\* the requested key, when it is not.
C1_GetOkKey ==
    (KeyCall /\ jv.type = "Object") =>
        IF jcall.index.key \in DOMAIN jv.map
        THEN jres.ok /\ jres.val = jv.map[jcall.index.key]
        ELSE /\ ~jres.ok
             /\ jres.err = [kind |-> "KeyMissing", key |-> jcall.index.key]

C1_Witness_KeyMissing ==
    /\ KeyCall
    /\ jv.type = "Object"
    /\ DOMAIN jv.map # {}
    /\ jcall.index.key \notin DOMAIN jv.map
    /\ ~jres.ok
    /\ jres.err.kind = "KeyMissing"

\* C2: get_ok(i) with an integer index i on an Array of length len returns
\* Ok(the element at position i) when i < len, and the error IndexOutOfBounds(i),
\* carrying the requested index, when i >= len (also for the empty array).
C2_GetOkIndex ==
    (PosCall /\ jv.type = "Array") =>
        IF jcall.index.pos < Len(jv.vec)
        THEN jres.ok /\ jres.val = jv.vec[jcall.index.pos + 1]
        ELSE /\ ~jres.ok
             /\ jres.err = [kind |-> "IndexOutOfBounds", index |-> jcall.index.pos]

C2_Witness_LastElement ==
    /\ PosCall
    /\ jv.type = "Array"
    /\ Len(jv.vec) = MaxLen
    /\ jcall.index.pos = Len(jv.vec) - 1
    /\ jres.ok
    /\ jres.val = jv.vec[Len(jv.vec)]

\* C3: get_ok on a value of the wrong container shape fails with
\* WrongType(actual, expected), never with KeyMissing or IndexOutOfBounds: a
\* string key on a non-Object expects Object, an integer index on a non-Array
\* expects Array, and the payload is the value that was indexed.
C3_WrongShape ==
    /\ (KeyCall /\ jv.type # "Object") =>
          /\ ~jres.ok
          /\ jres.err = [kind |-> "WrongType", value |-> jv, expected |-> "Object"]
    /\ (PosCall /\ jv.type # "Array") =>
          /\ ~jres.ok
          /\ jres.err = [kind |-> "WrongType", value |-> jv, expected |-> "Array"]

C3_Witness_IndexOnObject ==
    /\ PosCall
    /\ jv.type = "Object"
    /\ ~jres.ok
    /\ jres.err.kind = "WrongType"
    /\ jres.err.expected = "Array"
    /\ jres.err.value = jv

\* C4: for a Number that represents an unsigned integer n, as_u32_ok succeeds
\* (returning n) if and only if n <= u32::MAX, the bound included; otherwise it
\* yields WrongNumberType.
C4_U32Range ==
    (jcall.op = "as_u32_ok" /\ jv.type = "Number" /\ is_u64(jv.num)) =>
        IF jv.num.int <= U32_MAX
        THEN jres.ok /\ jres.val = jv.num.int
        ELSE ~jres.ok /\ jres.err.kind = "WrongNumberType"

NumericOps == {"as_i64_ok", "as_u64_ok", "as_u32_ok", "as_f64_ok"}

ScalarCoercion(op, type, payload) ==
    jcall.op = op =>
        IF jv.type = type
        THEN jres.ok /\ jres.val = payload
        ELSE /\ ~jres.ok
             /\ jres.err = [kind |-> "WrongType", value |-> jv, expected |-> type]

\* C5: a numeric coercion applied to a non-Number fails with
\* WrongType(value, Number); applied to a Number it succeeds or fails with
\* WrongNumberType carrying that number, never with WrongType.  as_str_ok,
\* as_bool_ok and as_null_ok succeed exactly on String, Bool and Null and
\* otherwise fail with WrongType carrying the expected kind.
C5_ErrorShapes ==
    /\ (jcall.op \in NumericOps /\ jv.type # "Number") =>
          /\ ~jres.ok
          /\ jres.err = [kind |-> "WrongType", value |-> jv, expected |-> "Number"]
    /\ (jcall.op \in NumericOps /\ jv.type = "Number" /\ ~jres.ok) =>
          /\ jres.err.kind = "WrongNumberType"
          /\ jres.err.num = jv.num
    /\ ScalarCoercion("as_str_ok", "String", IF jv.type = "String" THEN jv.s ELSE "")
    /\ ScalarCoercion("as_bool_ok", "Bool", IF jv.type = "Bool" THEN jv.b ELSE FALSE)
    /\ ScalarCoercion("as_null_ok", "Null", "unit")

C5_Witness_WrongNumberType ==
    /\ jcall.op = "as_i64_ok"
    /\ jv.type = "Number"
    /\ jv.num.n = "PosInt"
    /\ ~jres.ok
    /\ jres.err.kind = "WrongNumberType"

StatedNumberType(op) ==
    CASE op = "as_i64_ok" -> "I64"
      [] op = "as_u64_ok" -> "U64"
      [] op = "as_u32_ok" -> "U32"
      [] op = "as_f64_ok" -> "Float"

\* C25: the NumberType of a WrongNumberType error names what the failing
\* accessor expected: I64 for as_i64_ok, U64 for as_u64_ok, Float for
\* as_f64_ok, and U32 for as_u32_ok whatever Number it rejects, negative
\* integers and floating-point numbers included.
C25_NumberTypeTag ==
    (jcall.op \in NumericOps /\ jv.type = "Number" /\ ~jres.ok) =>
        /\ jres.err.kind = "WrongNumberType"
        /\ jres.err.expected = StatedNumberType(jcall.op)

IsInteger(num) == num.n \in {"PosInt", "NegInt"}

\* C26: on a Number, as_u64_ok succeeds exactly for the integers in
\* 0..u64::MAX, as_i64_ok exactly for the integers in i64::MIN..i64::MAX,
\* as_f64_ok exactly for the Numbers stored as floating point; each success
\* returns the stored number.
C26_RangeAndSign ==
    jv.type = "Number" =>
        /\ jcall.op = "as_u64_ok" =>
               /\ jres.ok <=> (IsInteger(jv.num) /\ jv.num.int \in 0..U64_MAX)
               /\ jres.ok => jres.val = jv.num.int
        /\ jcall.op = "as_i64_ok" =>
               /\ jres.ok <=> (IsInteger(jv.num) /\ jv.num.int \in I64_MIN..I64_MAX)
               /\ jres.ok => jres.val = jv.num.int
        /\ jcall.op = "as_f64_ok" =>
               /\ jres.ok <=> ~IsInteger(jv.num)
               /\ jres.ok => jres.val = jv.num.text

C26_Witness_IntegerIsNoFloat ==
    /\ jcall.op = "as_f64_ok"
    /\ jv.type = "Number"
    /\ jv.num.n = "PosInt"
    /\ ~jres.ok

\* what the accessor of the root crate returns for a recorded call
RootResult ==
    CASE jcall.op = "get_ok" -> root_get_ok(jv, jcall.index)
      [] jcall.op = "as_object_ok" -> root_as_object_ok(jv)
      [] jcall.op = "as_array_ok" -> root_as_array_ok(jv)
      [] jcall.op = "as_str_ok" -> root_as_str_ok(jv)
      [] jcall.op = "as_bool_ok" -> root_as_bool_ok(jv)
      [] jcall.op = "as_null_ok" -> root_as_null_ok(jv)
      [] jcall.op = "as_i64_ok" -> root_as_i64_ok(jv)
      [] jcall.op = "as_u64_ok" -> root_as_u64_ok(jv)
      [] jcall.op = "as_u32_ok" -> root_as_u32_ok(jv)
      [] jcall.op = "as_f64_ok" -> root_as_f64_ok(jv)

\* C28: the accessor of the root crate and the accessor of the common crate
\* agree on every shared operation: for every value and call both return the
\* same success value, or an error of the same kind with the same payload.
C28_CopiesAgree ==
    jcall # NoCall => jres = RootResult

C28_Witness_BothRejectU32Max ==
    /\ jcall.op = "as_u32_ok"
    /\ jv = Number(PosInt(U32_MAX))
    /\ ~jres.ok
    /\ ~RootResult.ok

(***************************************************************************)
(* Client::request (checked under SpecClient).                             *)
(***************************************************************************)
Returned == pc = "done"
Answered == Returned /\ response.some

\* The envelope's code, when the body is an object whose code is a u64.
HasCode(resp) ==
    /\ resp.type = "Object"
    /\ "code" \in DOMAIN resp.map
    /\ resp.map["code"].type = "Number"
    /\ is_u64(resp.map["code"].num)
CodeOf(resp) == resp.map["code"].num.int
HasField(resp, k) == k \in DOMAIN resp.map

\* C6: the envelope is classified by its code: code == 0 returns Ok(data);
\* code == 196 returns AuthenticationFailed; every other code returns the
\* remote-API error carrying that code and the envelope's desc.
C6_EnvelopeUnwrap ==
    (Answered /\ HasCode(response.val)) =>
        LET resp == response.val
            code == CodeOf(resp)
        IN CASE code = CODE_SUCCESS ->
                  /\ result.ok
                  /\ HasField(resp, "data") => result.val = resp.map["data"]
             [] code = CODE_AUTH_FAILED ->
                  ~result.ok /\ result.err = AuthenticationFailed
             [] OTHER ->
                  /\ ~result.ok
                  /\ result.err.kind = "UnknownRemoteError"
                  /\ result.err.code = code
                  /\ (HasField(resp, "desc") /\ resp.map["desc"].type = "String")
                        => result.err.desc = resp.map["desc"].s

\* C7: code == 0 is success whatever data holds: the request returns Ok, also
\* when data is null and when data is absent.
C7_SuccessWhateverData ==
    (Answered /\ HasCode(response.val) /\ CodeOf(response.val) = CODE_SUCCESS)
        => result.ok

\* C8: with max_retries = N and a transport that fails every attempt, a request
\* makes exactly N+1 attempts before it returns the transport error.
C8_RetryBound ==
    (Returned /\ result = Err(SendError)) => attempts = max_retries + 1

ThreeWay(pred) ==
    IF io_self.ok
    THEN io_out = [res |-> Ok(Some(io_self.val)), pred_called |-> FALSE]
    ELSE IF io_self.err.kind \in pred
         THEN io_out.res = Ok(None)
         ELSE io_out.res = Err(io_self.err)

\* C10: ok_kind gives Ok(Some(v)) for Ok(v) without calling the predicate,
\* Ok(None) for an Err whose kind satisfies the predicate, and Err(e) with the
\* original error otherwise; ok_not_found maps a not-found failure to Ok(None)
\* and every other failure, permission-denied among them, to Err(original).
C10_OkKind ==
    /\ io_pred.name = "ok_kind" => ThreeWay(io_pred.kinds)
    /\ io_pred.name = "ok_not_found" => ThreeWay({"NotFound"})

C10_Witness_PermissionDenied ==
    /\ io_pred.name = "ok_not_found"
    /\ ~io_self.ok
    /\ io_self.err.kind = "PermissionDenied"
    /\ io_out.res = Err(io_self.err)

\* The error kind that the name of a predicate states.
StatedKind(name) ==
    CASE name = "ok_permission_denied" -> "PermissionDenied"
      [] name = "ok_connection_refused" -> "ConnectionRefused"
      [] name = "ok_connection_reset" -> "ConnectionReset"
      [] name = "ok_connection_aborted" -> "ConnectionAborted"
      [] name = "ok_not_connected" -> "NotConnected"
      [] name = "ok_addr_in_use" -> "AddrInUse"
      [] name = "ok_addr_not_available" -> "AddrNotAvailable"
      [] name = "ok_broken_pipe" -> "BrokenPipe"
      [] name = "ok_already_exists" -> "AlreadyExists"
      [] name = "ok_would_block" -> "WouldBlock"
      [] name = "ok_invalid_input" -> "InvalidInput"
      [] name = "ok_invalid_data" -> "InvalidData"
      [] name = "ok_timed_out" -> "TimedOut"
      [] name = "ok_write_zero" -> "WriteZero"
      [] name = "ok_interrupted" -> "Interrupted"
      [] name = "ok_unsupported" -> "Unsupported"
      [] name = "ok_unexpected_eof" -> "UnexpectedEof"
      [] name = "ok_out_of_memory" -> "OutOfMemory"
      [] name = "ok_other" -> "Other"

\* C11: every named predicate treats as absent exactly the error kind its name
\* states: an Err of kind k becomes Ok(None) if and only if k is that kind, and
\* is returned unchanged otherwise (ok_connection_reset maps a connection-reset
\* failure to Ok(None) and propagates a connection-refused failure).
C11_NamedPredicates ==
    (io_pred.name \in NamedMethods /\ ~io_self.ok) =>
        IF io_self.err.kind = StatedKind(io_pred.name)
        THEN io_out.res = Ok(None)
        ELSE io_out.res = Err(io_self.err)


(***************************************************************************)
(* ApiRequest::send (checked under SpecSend).                              *)
(***************************************************************************)
GotStatus == s_status # 0

\* C12: when the response to ApiRequest::send has a status outside 200..299
\* (300 included), send returns Err(StatusCode(status)) and the body is never
\* read; with a status inside 200..299 it goes on to decode the body.
C12_StatusOutside2xx ==
    GotStatus =>
        IF s_status \in 200..299
        THEN s_pc = "body" \/ (s_pc = "returned" /\ s_result # Err(StatusCode(s_status)))
        ELSE /\ s_pc = "returned"
             /\ s_result = Err(StatusCode(s_status))
             /\ ~s_body

UrlUsable ==
    LET parsed == parse_uri(s_req.base, s_req.path) IN
    /\ parsed.ok
    /\ parsed.val.host # None
    /\ parsed.val.scheme # None
    /\ (parsed.val.port = None => parsed.val.scheme.val \in {"http", "https"})

\* C13: ApiRequest::send never panics on its URL: a URL without a port gets
\* port 80 (http) or 443 (https), and a URL whose scheme, host or authority
\* cannot be determined makes send return Err(InvalidUri) before a connection
\* is attempted.
C13_NoPanicOnUrl ==
    /\ s_pc # "panicked"
    /\ (s_pc # "new" /\ ~UrlUsable) =>
           /\ s_pc = "returned"
           /\ ~s_result.ok
           /\ s_result.err.kind = "InvalidUri"
           /\ s_conn = "none"


(***************************************************************************)
(* registrar_common::Error (checked under SpecError).                      *)
(***************************************************************************)
\* C14: Display of the unified Error is total: for every variant, StatusCode,
\* InvalidUri, MissingPath, ParseStatusCode, Method, HeaderName, HeaderValue
\* and MaxSizeReached included, it produces a message and never panics, and
\* the message is the one the error's kind and context determine.
C14_DisplayTotal ==
    e_shown # None =>
        /\ e_shown # Panic
        /\ e_shown = fmt(e_err.val)

\* the sub-kind that stands for a cause
StatedSubKind(cause) ==
    CASE cause = "Parse(Header)" -> "Parse"
      [] cause = "Parse(TooLarge)" -> "ParseTooLarge"
      [] cause = "Parse(Status)" -> "ParseStatus"
      [] cause = "User(Service)" -> "User"
      [] cause = "User(BodyWriteAborted)" -> "BodyWriteAborted"
      [] cause = "Canceled" -> "Canceled"
      [] cause = "ChannelClosed" -> "Closed"
      [] cause = "IncompleteMessage" -> "IncCmpleteMessage"
      [] cause = "HeaderTimeout" -> "Timeout"
      [] OTHER -> "Unknown"

\* C20: the conversion from hyper::Error files every failure under the one
\* sub-kind of its cause: malformed framing under Parse, an oversized message
\* under ParseTooLarge, a timeout under Timeout, a canceled request under
\* Canceled, a failure of no known cause under Unknown.
C20_HyperSubKind ==
    (e_src # None /\ e_src.val.from = "hyper" /\ e_err # None) =>
        /\ e_err.val.kind = "Http"
        /\ e_err.val.http_kind = StatedSubKind(e_src.val.cause)
        /\ e_err.val.message = e_src.val.message


(***************************************************************************)
(* The porkbun client (checked under SpecPorkbun).                         *)
(***************************************************************************)
AuthFields == {"apikey", "secretapikey"}

\* C16: when the body handed to the porkbun Client::request already has a key
\* apikey or secretapikey, the value it has there is kept in the body that is
\* sent, or nothing is sent and the call returns an error; it is never
\* replaced silently.
C16_NoSilentOverwrite ==
    pb_given # None =>
        IF pb_sent # None
        THEN \A k \in AuthFields \cap DOMAIN pb_given.val.map :
                pb_sent.val.map[k] = pb_given.val.map[k]
        ELSE pb_pc = "done" /\ ~pb_result.ok


(***************************************************************************)
(* The request that goes out, and the token (SpecPipelines, SpecClient).   *)
(***************************************************************************)
BearerOf(tok) == IF tok # None THEN Some("Bearer " \o tok.val) ELSE None

\* C15: the request that is sent has the header Authorization: Bearer <token>
\* exactly when a token is configured when the request is built, with that
\* token, and a JSON body exactly when a body was provided; for Client::request
\* and for ApiRequest::send.
C15_RequestCarries ==
    /\ pc \in {"built", "sent"} =>
           /\ request.val.authorization = BearerOf(token)
           /\ request.val.json = call.val.body
    /\ s_wire # None =>
           /\ s_wire.val.authorization = BearerOf(s_req.bearer)
           /\ s_wire.val.body = None

C15_Witness_TokenNoBody ==
    /\ pc = "sent"
    /\ token = Some("t1")
    /\ call.val.body = None
    /\ request.val.authorization = Some("Bearer t1")
    /\ request.val.json = None

\* C18: get_token() is the argument of the last set_token, or the builder's
\* token when set_token was never called; has_token() is true exactly when
\* that is present; the calls of request leave the token alone, whether they
\* succeed or fail.
C18_TokenFrame ==
    /\ get_token(token) = configured.token
    /\ has_token(token) <=> configured.token # None

C18_Witness_FailedAfterSetToken ==
    /\ configured.by = "set_token"
    /\ pc = "done"
    /\ result = Err(AuthenticationFailed)
    /\ request.val.authorization = BearerOf(configured.token)

\* C19: login returns the string under token of the data it received and
\* does not install it: after login the stored token is still the one last
\* configured, and a request carries the token last configured by the builder
\* or set_token, never one that login merely returned.
C19_LoginReturnsToken ==
    /\ (call # None /\ call.val.op = "login" /\ pc = "done") =>
           /\ get_token(token) = configured.token
           /\ IF /\ result.ok
                 /\ result.val.type = "Object"
                 /\ "token" \in DOMAIN result.val.map
                 /\ result.val.map["token"].type = "String"
              THEN login_out = Ok(result.val.map["token"].s)
              ELSE ~login_out.ok
    /\ pc \in {"built", "sent"} =>
           request.val.authorization = BearerOf(configured.token)

C19_Witness_FreshTokenNotInstalled ==
    /\ call # None /\ call.val.op = "login"
    /\ pc = "done"
    /\ login_out = Ok("t2")
    /\ token = Some("t1")


(***************************************************************************)
(* Remote errors, retries and statuses of the OpenProvider client          *)
(* (checked under SpecClient).                                             *)
(***************************************************************************)
RemoteErrorCase ==
    /\ Answered
    /\ HasCode(response.val)
    /\ CodeOf(response.val) \notin {CODE_SUCCESS, CODE_AUTH_FAILED}
    /\ HasField(response.val, "desc")
    /\ response.val.map["desc"].type = "String"

\* C21: for an envelope with a code c other than 0 and 196 and a desc that is
\* the string d, the error of Client::request carries c and exactly the text
\* d, with no quoting added, and its Display form is made of c and d.
C21_RemoteErrorVerbatim ==
    RemoteErrorCase =>
        LET c == CodeOf(response.val)
            d == response.val.map["desc"].s
        IN /\ result = Err(UnknownRemoteError(c, d))
           /\ error_to_string(result.err) =
                  "OpenProvider returned with error " \o NatToString(c) \o ": " \o d


\* the retry limit of the client that no_max_retries builds
UnboundedLimit == Builder_build(Builder_no_max_retries(Builder_new)).max_retries

\* C22: Builder::new defaults to 5 retries, max_retries(n) limits them to n, and
\* the client built after no_max_retries permits at least as many retries as
\* the client built with any max_retries(n), and as any client there is.
C22_NoMaxRetriesUnbounded ==
    /\ Builder_build(Builder_new).max_retries = 5
    /\ \A n \in 0..MaxRetries :
           /\ Builder_build(Builder_max_retries(Builder_new, n)).max_retries = n
           /\ UnboundedLimit >= n
    /\ UnboundedLimit >= max_retries


\* C24: a response of Client::request with a status outside 200..299 is never
\* read as an envelope: the call returns an error, never Ok(data), also when
\* the body is a well-formed envelope with code 0.
C24_Non2xxIsError ==
    (Returned /\ http_status # 0 /\ http_status \notin 200..299) => ~result.ok

\* the kind of outcome of a request, with the data or the code it carries
OutcomeKind(res) ==
    IF res.ok THEN <<"Ok", res.val>>
    ELSE IF res.err.kind = "UnknownRemoteError"
    THEN <<"UnknownRemoteError", res.err.code>>
    ELSE <<res.err.kind>>

\* C29: the Client::request of the root crate and that of the openprovider
\* crate put every decoded response into the same kind of outcome: Ok with the
\* same data, AuthenticationFailed, the unknown remote error with the same
\* code, or a Json error; also for a code other than 0 and 196 without desc.
C29_RequestCopiesAgree ==
    Answered => OutcomeKind(result) = OutcomeKind(root_request_unwrap(response.val))

(***************************************************************************)
(* The connection of ApiRequest::send (SpecSendFair, SpecSend).            *)
(***************************************************************************)
\* C23: once the TCP connection and the handshake have succeeded, and the
\* server keeps the connection open and answers what it receives, the request
\* is eventually handed to the connection: send does not wait for the
\* connection to end before it sends.
C23_EventuallySent ==
    (s_pc = "conn" /\ s_server = "keeps_open") ~> (s_wire # None)


\* C27: whichever way send ends (success, connect or handshake failure, send
\* failure, status outside the accepted range, body or decode failure), no
\* connection opened by the call is open after it has returned; a connection
\* is open only between the connect and the end of the connection future.
C27_ConnectionTornDown ==
    /\ s_pc = "returned" => s_conn # "open"
    /\ s_conn = "open" => s_pc \in {"handshake", "conn"}

C27_Witness_ClosedAfterDecodeFailure ==
    /\ s_pc = "returned"
    /\ s_body
    /\ ~s_result.ok
    /\ s_result.err.kind = "OtherJson"
    /\ s_conn = "closed"


(***************************************************************************)
(* Client::list_records (checked under SpecRecords).                       *)
(***************************************************************************)
\* the name the record is stated to get
StatedName(r_name, name_ref) ==
    IF Len(r_name) = Len(name_ref) THEN r_name
    ELSE SubSeq(r_name, 1, Len(r_name) - Len(name_ref) - 1)

\* C30: list_records never panics, and returns every record of the zone with
\* its name made relative: a name as long as the zone name is kept, any other
\* name loses its last len(zone)+1 characters; a zone without records or a
\* record with a name shorter than the zone name gives a value or an error.
C30_ListRecordsRelative ==
    lr_out # NoResult =>
        /\ lr_out # Panic
        /\ (/\ lr_zone.ok
            /\ lr_zone.val.records # None
            /\ \A i \in 1..Len(lr_zone.val.records.val) :
                   Len(lr_zone.val.records.val[i].name) >= Len(lr_name))
           => LET rs == lr_zone.val.records.val IN
              /\ lr_out.ok
              /\ Len(lr_out.val) = Len(rs)
              /\ \A i \in 1..Len(rs) :
                     /\ lr_out.val[i].name = StatedName(rs[i].name, lr_name)
                     /\ lr_out.val[i].value = rs[i].value

====
